---- MODULE Spec2Model ----
(***************************************************************************)
(* alphaTalk: the analysis cache (db.py, AnalysisDB), the background       *)
(* pipeline and the periodic sweep (kakao.py), and the multi-source        *)
(* fundamental-ratio fusion (fundamentalTools.py).                         *)
(*                                                                         *)
(* Spec      the cache, the pipelines and the sweeps on one event loop     *)
(* FuseSpec  one run of FundamentalAnalyzer.calculate_financial_ratios     *)
(***************************************************************************)
EXTENDS Integers, Sequences, FiniteSets, TLC

VARIABLES
    clock,          \* datetime.now(timezone.utc), in seconds
    analyses,       \* db.analyses: the documents of the collection, in insertion order
    users,          \* db.users: the watchlist documents
    companies_list, \* db.companies_list: the global ticker documents
    tasks,          \* the run_full_analysis_background tasks created so far
    sweeps,         \* the scheduled_analysis coroutines started so far
    fz,             \* the state of one calculate_financial_ratios run
    purged,         \* the delete_old_analyses calls made so far, and what the last returned
    pl,             \* one run_full_analysis_background task, statement by statement
    st,             \* one price history, and what the two QuantTools strategies return for it
    rq              \* the /add requests received so far, statement by statement

vars == <<clock, analyses, users, companies_list, tasks, sweeps, fz, purged, pl, st, rq>>

\* the variables the cache, the sweeps and the fusion leave alone
auxVars == <<purged, pl, st, rq>>

\* the variables delete_old_analyses and its environment leave alone
purgeFrame == <<users, companies_list, tasks, sweeps, fz, pl, st, rq>>

\* the variables a single pipeline run and its environment leave alone
plFrame == <<users, companies_list, tasks, sweeps, fz, purged, st, rq>>

cacheVars == <<clock, analyses, users, companies_list, tasks, sweeps>>

----------------------------------------------------------------------------
(* Bounds *)

MaxClock == 5400
MaxSweeps == 2
MaxTasks == 2

\* how many metrics a provider has data for, unless it has all of them
MaxKeys == 2

\* how many fields stock.info holds for the alternative extraction
MaxInfo == 1

\* the clock advances half an hour at a time
ClockStep == 1800

\* the ticker strings that reach the program
Tickers == {"aapl", "AAPL", "005930"}

MaxAgeInputs == {1, 12}

\* delete_old_analyses: the clock advances a day at a time, for eight days
PurgeStep == 86400
MaxPurgeClock == 691200
MaxPurges == 2

\* the default and /admin/cleanup pass 7
DaysInputs == {1, 7}

\* price histories: every history of up to MaxRows closes over Prices
MaxRows == 4

\* the /add requests of one behaviour
MaxRequests == 2

\* the clock of the /add requests: steps of six hours, up to eighteen
AddStep == 21600

MaxAddClock == 64800
Prices == {1, 2, 3}

----------------------------------------------------------------------------
(* Values *)

SecondsPerHour == 3600

\* Python's None, the empty string, and an opaque text produced by a stage of a run
NoneVal == [kind |-> "None", stage |-> "", run |-> 0]

EmptyStr == [kind |-> "str", stage |-> "", run |-> 0]

Text(stage, run) == [kind |-> "str", stage |-> stage, run |-> run]

\* "최종 분석 생성에 실패했습니다."
FallbackText == [kind |-> "str", stage |-> "fallback", run |-> 0]

\* str.upper()
Upper(t) == CASE t = "aapl" -> "AAPL"
              [] OTHER -> t

\* dict.get(key, default)
DictGet(d, key, default) == IF key \in DOMAIN d THEN d[key] ELSE default

RECURSIVE SeqToSet(_)
SeqToSet(s) == IF s = <<>> THEN {} ELSE {Head(s)} \cup SeqToSet(Tail(s))

----------------------------------------------------------------------------
(* AnalysisDB *)

\* the document save_analysis builds
SaveDocument(ticker, analysis_data, now) ==
    [ticker               |-> Upper(ticker),
     timestamp            |-> now,
     quant_analysis       |-> DictGet(analysis_data, "quant", EmptyStr),
     fundamental_analysis |-> DictGet(analysis_data, "fundamental", EmptyStr),
     news_analysis        |-> DictGet(analysis_data, "news", EmptyStr),
     final_recommendation |-> DictGet(analysis_data, "final", EmptyStr),
     error                |-> DictGet(analysis_data, "error", NoneVal)]

\* the filter without the upper-casing
SaveFilterAsGiven(ticker) == ticker

\* the filter of save_analysis's update_one
SaveFilter(ticker) == Upper(ticker)

\* a merge that keeps the stored field where the new document holds a default
SetFieldsMerging(old, document) ==
    [f \in (DOMAIN old) \cup (DOMAIN document) |->
        IF f \in {"ticker", "timestamp"} THEN document[f]
        ELSE IF f \in DOMAIN document /\ document[f] # EmptyStr /\ document[f] # NoneVal
             THEN document[f] ELSE old[f]]

\* {"$set": document}: the fields of document replace those of the stored one
SetFields(old, document) ==
    [f \in (DOMAIN old) \cup (DOMAIN document) |->
        IF f \in DOMAIN document THEN document[f] ELSE old[f]]

\* the positions of the documents a ticker filter matches
Matching(coll, tk) == {i \in 1..Len(coll) : coll[i].ticker = tk}

Min(S) == CHOOSE x \in S : \A y \in S : x <= y

\* update_one(filter, {"$set": document}, upsert=True)
UpdateOneUpsert(coll, tk, document) ==
    IF Matching(coll, tk) # {}
    THEN [coll EXCEPT ![Min(Matching(coll, tk))] = SetFields(@, document)]
    ELSE Append(coll, document)

\* the cutoff of get_analysis
Cutoff(now, max_age_hours) == now - (max_age_hours * SecondsPerHour)

\* the filter with a strict comparison
FreshStrictly(doc, ticker, cutoff_time) ==
    /\ doc.ticker = Upper(ticker)
    /\ doc.timestamp > cutoff_time

\* the filter of get_analysis's find_one
Fresh(doc, ticker, cutoff_time) ==
    /\ doc.ticker = Upper(ticker)
    /\ doc.timestamp >= cutoff_time

\* what get_analysis returns for a found document
AnalysisView(document) ==
    [timestamp   |-> document.timestamp,
     quant       |-> document.quant_analysis,
     fundamental |-> document.fundamental_analysis,
     news        |-> document.news_analysis,
     final       |-> document.final_recommendation,
     error       |-> document.error]

NoAnalysis == [timestamp |-> -1, quant |-> NoneVal, fundamental |-> NoneVal,
               news |-> NoneVal, final |-> NoneVal, error |-> NoneVal]

\* get_analysis(ticker, max_age_hours): the view of the first fresh document, or None
GetAnalysis(coll, ticker, max_age_hours, now) ==
    LET hits == {i \in 1..Len(coll) : Fresh(coll[i], ticker, Cutoff(now, max_age_hours))}
    IN IF hits = {} THEN NoAnalysis ELSE AnalysisView(coll[Min(hits)])

----------------------------------------------------------------------------
(* run_full_analysis_background *)

NoDoc == [ticker |-> "", timestamp |-> -1, quant_analysis |-> NoneVal,
          fundamental_analysis |-> NoneVal, news_analysis |-> NoneVal,
          final_recommendation |-> NoneVal, error |-> NoneVal]

NewTask(ticker, sweep) ==
    [ticker |-> ticker, pc |-> "created", sweep |-> sweep, outcome |-> "", doc |-> NoDoc]

\* what makeRequest can do: a result, no usable result, or an exception
SynthOutcomes == {"result", "none", "raise"}

\* final_recommendation, from final_response
FinalRecommendation(i, outcome) ==
    IF outcome = "result" THEN Text("final", i) ELSE FallbackText

\* the dict the try block saves: the three reports and the recommendation
AnalysisData(i, outcome) ==
    [k \in {"quant", "fundamental", "news", "final"} |->
        CASE k = "quant" -> Text("quant", i)
          [] k = "fundamental" -> Text("fundamental", i)
          [] k = "news" -> Text("news", i)
          [] OTHER -> FinalRecommendation(i, outcome)]

\* the dict the except block saves
ErrorData(i) == [k \in {"error"} |-> Text("error", i)]

\* what the run hands to save_analysis
SavedData(i, outcome) ==
    IF outcome = "raise" THEN ErrorData(i) ELSE AnalysisData(i, outcome)

\* The task runs from its start to its first await without leaving the event
\* loop: the three reports, makeRequest, and the synchronous head of
\* save_analysis, which builds the document and sends update_one.
RunPipeline(i) ==
    /\ tasks[i].pc = "created"
    /\ \E outcome \in SynthOutcomes :
         tasks' = [tasks EXCEPT
                     ![i].pc = "update",
                     ![i].outcome = outcome,
                     ![i].doc = SaveDocument(tasks[i].ticker, SavedData(i, outcome), clock)]
    /\ UNCHANGED <<clock, analyses, users, companies_list, sweeps, fz, auxVars>>

\* the database applies the update_one of save_analysis; the task then ends
DbUpdate(i) ==
    /\ tasks[i].pc = "update"
    /\ analyses' = UpdateOneUpsert(analyses, SaveFilter(tasks[i].ticker), tasks[i].doc)
    /\ tasks' = [tasks EXCEPT ![i].pc = "done", ![i].doc = NoDoc]
    /\ UNCHANGED <<clock, users, companies_list, sweeps, fz, auxVars>>

----------------------------------------------------------------------------
(* scheduled_analysis *)

\* the tickers of every watchlist document
UserTickers(coll) ==
    {t \in Tickers : \E i \in 1..Len(coll) : t \in SeqToSet(coll[i].tickers)}

\* TickersDb.get_all_tickers
AllTickers(coll) == {coll[i].ticker : i \in 1..Len(coll)}

NewSweep == [pc |-> "users", all_tickers |-> {}, todo |-> {}, launched |-> {}]

\* the scheduler's interval trigger, or /admin/trigger-analysis
StartSweep ==
    /\ Len(sweeps) < MaxSweeps
    /\ sweeps' = Append(sweeps, NewSweep)
    /\ UNCHANGED <<clock, analyses, users, companies_list, tasks, fz, auxVars>>

\* get_all_unique_tickers: the watchlists
SweepUsers(s) ==
    /\ sweeps[s].pc = "users"
    /\ sweeps' = [sweeps EXCEPT ![s].pc = "companies",
                                ![s].all_tickers = UserTickers(users)]
    /\ UNCHANGED <<clock, analyses, users, companies_list, tasks, fz, auxVars>>

\* get_all_unique_tickers: the global list; an empty result ends the sweep
SweepCompanies(s) ==
    /\ sweeps[s].pc = "companies"
    /\ LET all == sweeps[s].all_tickers \cup AllTickers(companies_list)
       IN sweeps' = [sweeps EXCEPT ![s].pc = IF all = {} THEN "done" ELSE "launch",
                                   ![s].all_tickers = all,
                                   ![s].todo = all]
    /\ UNCHANGED <<clock, analyses, users, companies_list, tasks, fz, auxVars>>

\* one round of the loop: create_task for the next ticker, then sleep
SweepLaunch(s) ==
    /\ sweeps[s].pc = "launch"
    /\ Len(tasks) < MaxTasks
    /\ \E t \in sweeps[s].todo :
         /\ tasks' = Append(tasks, NewTask(t, s))
         /\ sweeps' = [sweeps EXCEPT
                         ![s].todo = @ \ {t},
                         ![s].launched = @ \cup {Len(tasks) + 1},
                         ![s].pc = IF sweeps[s].todo = {t} THEN "wait" ELSE "launch"]
    /\ UNCHANGED <<clock, analyses, users, companies_list, fz, auxVars>>

\* wait_for(gather(...)): every launched task has ended
SweepGathered(s) ==
    /\ sweeps[s].pc = "wait"
    /\ \A i \in sweeps[s].launched : tasks[i].pc = "done"
    /\ sweeps' = [sweeps EXCEPT ![s].pc = "done"]
    /\ UNCHANGED <<clock, analyses, users, companies_list, tasks, fz, auxVars>>

----------------------------------------------------------------------------
(* the clock *)

Tick ==
    /\ clock + ClockStep <= MaxClock
    /\ clock' = clock + ClockStep
    /\ UNCHANGED <<analyses, users, companies_list, tasks, sweeps, fz, auxVars>>

----------------------------------------------------------------------------
(* FundamentalAnalyzer.calculate_financial_ratios *)

\* metric values: None, a number, or the string "N/A" repeated n times
PyNone == [kind |-> "None", n |-> 0]

Num(x) == [kind |-> "num", n |-> x]

NA == [kind |-> "str", n |-> 1]

\* value in [None, 0, "N/A"]
IsEmptyValue(v) == v = PyNone \/ v = Num(0) \/ v = NA

\* value is not None and value != 0 and value != "N/A"
PassesSourceFilter(v) == v # PyNone /\ v # Num(0) /\ v # NA

\* value is not None and value != 0
PassesFallbackFilter(v) == v # PyNone /\ v # Num(0)

EmptyDict == [k \in {} |-> PyNone]

\* d[key] = value
DictPut(d, key, value) ==
    [k \in (DOMAIN d) \cup {key} |-> IF k = key THEN value ELSE d[k]]

\* list.remove(x) if x in list
ListRemove(list, x) == SelectSeq(list, LAMBDA y : y # x)

critical_metrics ==
    <<"revenue", "net_income", "market_cap", "pe_ratio", "pb_ratio",
      "roe", "roa", "debt_ratio", "current_ratio">>

\* the keys of analyze_naver_financial_ratios's financial_metrics, in insertion order
NaverKeys ==
    <<"revenue", "operating_income", "net_income", "roe", "roa", "pe_ratio",
      "pb_ratio", "debt_ratio", "current_ratio", "market_cap">>

\* the keys of calculate_financial_ratios_yfinance's result, but "source"
YfKeys ==
    <<"revenue", "net_income", "total_assets", "shareholders_equity", "roa", "roe",
      "gross_margin", "asset_growth", "market_cap", "pe_ratio", "pb_ratio">>

\* every ticker taken for a Korean one
IsKoreanStockAlways(ticker) == TRUE

\* extract_korean_code(ticker) is not None
IsKoreanStock(ticker) ==
    CASE ticker = "005930" -> TRUE
      [] ticker = "005930.KS" -> TRUE
      [] OTHER -> FALSE

\* Step 1: the loop over naver_data["financial_metrics"].items()
RECURSIVE FillFromNaver(_, _, _)
FillFromNaver(fm, naver_metrics, keys) ==
    IF keys = <<>> THEN fm
    ELSE LET metric == Head(keys)
         IN IF metric \in DOMAIN naver_metrics /\ PassesSourceFilter(naver_metrics[metric])
            THEN FillFromNaver(DictPut(fm, metric, naver_metrics[metric]),
                               naver_metrics, Tail(keys))
            ELSE FillFromNaver(fm, naver_metrics, Tail(keys))

\* Step 2 without the test for a metric that is already there
YfMayFillAlways(fm, metric) == TRUE

\* Step 2: metric not in financial_metrics, or its value in [None, 0, "N/A"]
YfMayFill(fm, metric) == metric \notin DOMAIN fm \/ IsEmptyValue(fm[metric])

\* Step 2 as financial_metrics.update(yfinance_result)
FillByUpdate(fm, yfinance_result, keys) ==
    [k \in (DOMAIN fm) \cup (DOMAIN yfinance_result) |->
        IF k \in DOMAIN yfinance_result THEN yfinance_result[k] ELSE fm[k]]

\* Step 2: the loop over yfinance_result.items()
RECURSIVE FillFromYfinance(_, _, _)
FillFromYfinance(fm, yfinance_result, keys) ==
    IF keys = <<>> THEN fm
    ELSE LET metric == Head(keys)
         IN IF /\ metric \in DOMAIN yfinance_result
               /\ YfMayFill(fm, metric)
               /\ PassesSourceFilter(yfinance_result[metric])
            THEN FillFromYfinance(DictPut(fm, metric, yfinance_result[metric]),
                                  yfinance_result, Tail(keys))
            ELSE FillFromYfinance(fm, yfinance_result, Tail(keys))

\* Step 3: the critical metrics that are not in financial_metrics or hold an empty value
MissingCritical(fm) ==
    SelectSeq(critical_metrics, LAMBDA m : m \notin DOMAIN fm \/ IsEmptyValue(fm[m]))

\* value * 100: a number is scaled, a string is repeated
Times100(v) == [kind |-> v.kind, n |-> v.n * 100]

\* the first of trailingPE, forwardPE, priceToEarningsTrailing12Months that info
\* holds with a value that is not None
PeFields == <<"trailingPE", "forwardPE", "priceToEarningsTrailing12Months">>

RECURSIVE FirstPe(_, _)
FirstPe(info, fields) ==
    IF fields = <<>> THEN <<>>
    ELSE IF Head(fields) \in DOMAIN info /\ info[Head(fields)] # PyNone
         THEN <<info[Head(fields)]>>
         ELSE FirstPe(info, Tail(fields))

\* the info field get_yfinance_alternative_metrics reads for a metric
InfoField(metric) ==
    CASE metric = "revenue" -> "totalRevenue"
      [] metric = "net_income" -> "netIncomeToCommon"
      [] metric = "market_cap" -> "marketCap"
      [] metric = "pb_ratio" -> "priceToBook"
      [] metric = "roe" -> "returnOnEquity"
      [] metric = "roa" -> "returnOnAssets"
      [] metric = "debt_ratio" -> "debtToEquity"
      [] metric = "current_ratio" -> "currentRatio"
      [] OTHER -> ""

\* the metrics whose info value is multiplied by 100
Percentages == {"roe", "roa", "current_ratio"}

\* get_yfinance_alternative_metrics: the loop over missing_metrics. None * 100
\* raises, the except block then returns {}
RECURSIVE AlternativeMetrics(_, _, _)
AlternativeMetrics(info, missing_metrics, alternative_data) ==
    IF missing_metrics = <<>> THEN alternative_data
    ELSE LET metric == Head(missing_metrics)
             rest == Tail(missing_metrics)
         IN IF metric = "pe_ratio"
            THEN IF FirstPe(info, PeFields) # <<>>
                 THEN AlternativeMetrics(info, rest,
                        DictPut(alternative_data, metric, FirstPe(info, PeFields)[1]))
                 ELSE AlternativeMetrics(info, rest, alternative_data)
            ELSE IF InfoField(metric) \in DOMAIN info
                 THEN IF metric \in Percentages
                      THEN IF info[InfoField(metric)] = PyNone
                           THEN EmptyDict
                           ELSE AlternativeMetrics(info, rest,
                                  DictPut(alternative_data, metric,
                                          Times100(info[InfoField(metric)])))
                      ELSE AlternativeMetrics(info, rest,
                             DictPut(alternative_data, metric, info[InfoField(metric)]))
                 ELSE AlternativeMetrics(info, rest, alternative_data)

\* get_dart_fallback_metrics: get_corp_code_from_dart returns None whatever the
\* response (or raises), so the function returns {}
DartFallbackMetrics(ticker, missing_metrics) == EmptyDict

\* Steps 3 and 4: the loop over the items of a fallback's dict; r holds the
\* financial metrics and the missing list
RECURSIVE FillFromFallback(_, _, _)
FillFromFallback(r, fallback_data, keys) ==
    IF keys = <<>> THEN r
    ELSE LET metric == Head(keys)
         IN IF metric \in DOMAIN fallback_data /\ PassesFallbackFilter(fallback_data[metric])
            THEN FillFromFallback(
                   [fm |-> DictPut(r.fm, metric, fallback_data[metric]),
                    missing |-> ListRemove(r.missing, metric)],
                   fallback_data, Tail(keys))
            ELSE FillFromFallback(r, fallback_data, Tail(keys))

\* Step 5 counting every critical metric that has a key
FilledMetricsByKey(fm) ==
    Len(SelectSeq(critical_metrics, LAMBDA m : m \in DOMAIN fm))

\* Step 5: the critical metrics that hold a value not in [None, 0, "N/A"]
FilledMetrics(fm) ==
    Len(SelectSeq(critical_metrics, LAMBDA m : m \in DOMAIN fm /\ ~IsEmptyValue(fm[m])))

\* (filled_metrics / len(critical_metrics)) * 100, kept exact as the numerator
\* over len(critical_metrics): the score is QualityNumerator / 9
QualityNumerator(fm) == FilledMetrics(fm) * 100

\* data_quality_score < 20
BelowThreshold(numerator) == numerator < 20 * Len(critical_metrics)

\* the final test without the threshold
ReturnsErrorIfEmpty(fm, numerator) == fm = EmptyDict

\* not result["financial_metrics"] or result["data_quality_score"] < 20
ReturnsError(fm, numerator) == fm = EmptyDict \/ BelowThreshold(numerator)

----------------------------------------------------------------------------
(* one run of calculate_financial_ratios, provider by provider *)

BoundedSubsets(S, n) == {K \in SUBSET S : Cardinality(K) <= n}

\* what analyze_naver_financial_ratios can put under a key: parsed numbers, 0
\* included; market_cap only when it is truthy
NaverValues(k) == IF k = "market_cap" THEN {Num(10)} ELSE {Num(0), Num(10)}

NaverMetricDicts ==
    UNION {{f \in [K -> {Num(0), Num(10)}] : \A k \in K : f[k] \in NaverValues(k)} :
           K \in BoundedSubsets(SeqToSet(NaverKeys), MaxKeys)}
    \cup {[k \in SeqToSet(NaverKeys) |-> Num(10)]}

\* the keys calculate_financial_ratios_yfinance reads from stock.info
YfInfoKeys == {"market_cap", "pe_ratio", "pb_ratio"}

\* what calculate_financial_ratios_yfinance can put under a key, besides 0
YfValues(k) == IF k \in YfInfoKeys THEN {PyNone, NA, Num(99)} ELSE {Num(99)}

\* every key is present; the ones the provider has no data for are 0
YfDicts ==
    UNION {{[k \in SeqToSet(YfKeys) |-> IF k \in K THEN f[k] ELSE Num(0)] :
              f \in {g \in [K -> {PyNone, NA, Num(99)}] : \A k \in K : g[k] \in YfValues(k)}} :
           K \in BoundedSubsets(SeqToSet(YfKeys), MaxKeys)}
    \cup {[k \in SeqToSet(YfKeys) |-> Num(99)]}

InfoFields ==
    {"totalRevenue", "netIncomeToCommon", "marketCap", "priceToBook", "returnOnEquity",
     "returnOnAssets", "debtToEquity", "currentRatio"} \cup SeqToSet(PeFields)

InfoValues == {PyNone, Num(0), NA, Num(5)}

InfoDicts == UNION {[K -> InfoValues] : K \in BoundedSubsets(InfoFields, MaxInfo)}

FuseTickers == {"005930", "AAPL"}

NotReturned == [error |-> FALSE, attempted_sources |-> <<>>, missing_metrics |-> <<>>]

\* the dict returned when the data is insufficient
ErrorReturn(data_sources_used, missing_critical) ==
    [error |-> TRUE, attempted_sources |-> data_sources_used,
     missing_metrics |-> missing_critical]

\* return result
ResultReturn(f, numerator) ==
    [error |-> FALSE, financial_metrics |-> f.financial_metrics,
     data_sources_used |-> f.data_sources_used,
     missing_metrics |-> f.missing_critical,
     data_quality_score |-> numerator]

FzStart(ticker, dart_api_key) ==
    [pc |-> "naver", ticker |-> ticker, dart_api_key |-> dart_api_key,
     financial_metrics |-> EmptyDict, data_sources_used |-> <<>>,
     consulted |-> <<>>,       \* the providers called so far, in order
     missing_critical |-> <<>>, provided |-> EmptyDict,
     missing_metrics |-> <<>>, data_quality_score |-> 0, returned |-> NotReturned]

FzIdle == [FzStart("", FALSE) EXCEPT !.pc = "idle"]

\* Step 1: Naver Finance, for Korean stocks
FuseNaver ==
    /\ fz.pc = "naver"
    /\ IF IsKoreanStock(fz.ticker)
       THEN \/ \E naver_metrics \in NaverMetricDicts :
                 fz' = [fz EXCEPT
                          !.pc = "yfinance",
                          !.consulted = Append(@, "naver_finance"),
                          !.data_sources_used = Append(@, "naver_finance"),
                          !.financial_metrics = FillFromNaver(@, naver_metrics, NaverKeys),
                          !.provided = naver_metrics]
            \/ fz' = [fz EXCEPT !.pc = "yfinance",      \* "error" in naver_result
                                !.consulted = Append(@, "naver_finance")]
       ELSE fz' = [fz EXCEPT !.pc = "yfinance"]
    /\ UNCHANGED <<cacheVars, auxVars>>

\* Step 2 left out: yfinance is not called
FuseYfinanceSkipped ==
    /\ fz.pc = "yfinance"
    /\ fz' = [fz EXCEPT !.pc = "alternative", !.provided = EmptyDict]
    /\ UNCHANGED <<cacheVars, auxVars>>

\* Step 2: yfinance, always
FuseYfinance ==
    /\ fz.pc = "yfinance"
    /\ \/ \E yfinance_result \in YfDicts :
            fz' = [fz EXCEPT
                     !.pc = "alternative",
                     !.consulted = Append(@, "yfinance"),
                     !.data_sources_used = Append(@, "yfinance"),
                     !.financial_metrics = FillFromYfinance(@, yfinance_result, YfKeys),
                     !.provided = yfinance_result]
       \/ fz' = [fz EXCEPT !.pc = "alternative",      \* "error" in yfinance_result
                           !.consulted = Append(@, "yfinance"),
                           !.provided = EmptyDict]
    /\ UNCHANGED <<cacheVars, auxVars>>

\* what Step 3 makes of the fallback's dict
AfterFallback(f, source, fallback_data, keys) ==
    LET r == FillFromFallback([fm |-> f.financial_metrics, missing |-> f.missing_critical],
                              fallback_data, keys)
    IN IF fallback_data = EmptyDict
       THEN [f EXCEPT !.provided = EmptyDict]
       ELSE [f EXCEPT !.data_sources_used = Append(@, source),
                      !.financial_metrics = r.fm,
                      !.missing_critical = r.missing,
                      !.provided = fallback_data]

\* Step 3: the missing critical metrics, and the alternative yfinance extraction
FuseAlternative ==
    /\ fz.pc = "alternative"
    /\ LET missing_critical == MissingCritical(fz.financial_metrics)
           f == [fz EXCEPT !.pc = "dart", !.missing_critical = missing_critical]
           called == [f EXCEPT !.consulted = Append(@, "yfinance_alternative")]
       IN IF missing_critical # <<>>
          THEN \/ \E info \in InfoDicts :
                    fz' = AfterFallback(called, "yfinance_alternative",
                            AlternativeMetrics(info, missing_critical, EmptyDict),
                            missing_critical)
               \/ fz' = [called EXCEPT !.provided = EmptyDict]   \* yf.Ticker or stock.info raises
          ELSE fz' = [f EXCEPT !.provided = EmptyDict]
    /\ UNCHANGED <<cacheVars, auxVars>>

\* Step 4: DART, for Korean stocks with metrics still missing and an API key
FuseDart ==
    /\ fz.pc = "dart"
    /\ IF IsKoreanStock(fz.ticker) /\ fz.missing_critical # <<>> /\ fz.dart_api_key
       THEN fz' = [AfterFallback(fz, "dart_api",
                                 DartFallbackMetrics(fz.ticker, fz.missing_critical),
                                 fz.missing_critical)
                   EXCEPT !.pc = "score", !.consulted = Append(@, "dart_api")]
       ELSE fz' = [fz EXCEPT !.pc = "score", !.provided = EmptyDict]
    /\ UNCHANGED <<cacheVars, auxVars>>

\* Step 5: the quality score, and what the function returns
FuseScore ==
    /\ fz.pc = "score"
    /\ fz' = [fz EXCEPT
                !.pc = "done",
                !.missing_metrics = fz.missing_critical,
                !.data_quality_score = QualityNumerator(fz.financial_metrics),
                !.returned = IF ReturnsError(fz.financial_metrics,
                                             QualityNumerator(fz.financial_metrics))
                             THEN ErrorReturn(fz.data_sources_used, fz.missing_critical)
                             ELSE ResultReturn(fz, QualityNumerator(fz.financial_metrics))]
    /\ UNCHANGED <<cacheVars, auxVars>>

----------------------------------------------------------------------------

\* a run that has not started: no report yet, no save_analysis call yet
PlStart(ticker, run) ==
    [pc |-> "quant", ticker |-> ticker, run |-> run,
     quant_report |-> NoneVal, fundamental_report |-> NoneVal, news_report |-> NoneVal,
     final_recommendation |-> NoneVal, raised |-> FALSE, failed |-> {},
     puts |-> 0, doc |-> NoDoc]

PlIdle == [PlStart("", 0) EXCEPT !.pc = "idle"]

\* a strategy that has not been called
NotCalled == [kind |-> "not_called", signal |-> ""]

\* a price history and the arguments of the two strategies
StStart(data, kValue, shortPeriod, longPeriod) ==
    [data |-> data, kValue |-> kValue, shortPeriod |-> shortPeriod,
     longPeriod |-> longPeriod, counter |-> NotCalled, trend |-> NotCalled,
     rsi |-> [kind |-> "not_called", num |-> 0, den |-> 1]]

StIdle == StStart(<<>>, 0, 0, 0)

\* no delete_old_analyses call yet
NoPurge == [calls |-> 0, days |-> 0, deleted_count |-> 0]

\* the watchlists and the global list the database holds when the service starts
InitUsers == {<<[user_id |-> "u1", tickers |-> <<"AAPL">>]>>}

InitCompanies == {<<>>, <<[ticker |-> "aapl"]>>, <<[ticker |-> "005930"]>>}

CacheInit ==
    /\ clock = 0
    /\ analyses = <<>>
    /\ users \in InitUsers
    /\ companies_list \in InitCompanies
    /\ tasks = <<>>
    /\ sweeps = <<>>

Init == CacheInit /\ fz = FzIdle /\ purged = NoPurge /\ pl = PlIdle /\ st = StIdle /\ rq = <<>>

Next ==
    \/ \E i \in 1..Len(tasks) : RunPipeline(i)
    \/ \E i \in 1..Len(tasks) : DbUpdate(i)
    \/ StartSweep
    \/ \E s \in 1..Len(sweeps) : SweepUsers(s)
    \/ \E s \in 1..Len(sweeps) : SweepCompanies(s)
    \/ \E s \in 1..Len(sweeps) : SweepLaunch(s)
    \/ \E s \in 1..Len(sweeps) : SweepGathered(s)
    \/ Tick

Spec == Init /\ [][Next]_vars

FuseInit ==
    /\ clock = 0
    /\ analyses = <<>>
    /\ users = <<>>
    /\ companies_list = <<>>
    /\ tasks = <<>>
    /\ sweeps = <<>>
    /\ \E ticker \in FuseTickers, dart_api_key \in BOOLEAN : fz = FzStart(ticker, dart_api_key)
    /\ purged = NoPurge
    /\ pl = PlIdle
    /\ st = StIdle
    /\ rq = <<>>

FuseNext ==
    \/ FuseNaver
    \/ FuseYfinance
    \/ FuseAlternative
    \/ FuseDart
    \/ FuseScore

FuseSpec == FuseInit /\ [][FuseNext]_vars

----------------------------------------------------------------------------
(* AnalysisDB.delete_old_analyses *)

SecondsPerDay == 24 * 3600

\* the cutoff of delete_old_analyses
PurgeCutoff(now, days) == now - (days * SecondsPerDay)

\* the filter with $lte
ExpiredOrAt(doc, cutoff_time) == doc.timestamp <= cutoff_time

\* {"timestamp": {"$lt": cutoff}}
Expired(doc, cutoff_time) == doc.timestamp < cutoff_time

\* delete_many(filter): the documents left
DeleteMany(coll, cutoff_time) == SelectSeq(coll, LAMBDA doc : ~Expired(doc, cutoff_time))

\* result.deleted_count
DeletedCount(coll, cutoff_time) == Len(SelectSeq(coll, LAMBDA doc : Expired(doc, cutoff_time)))

\* delete_old_analyses(days)
Purge ==
    /\ purged.calls < MaxPurges
    /\ \E days \in DaysInputs :
         /\ analyses' = DeleteMany(analyses, PurgeCutoff(clock, days))
         /\ purged' = [calls |-> purged.calls + 1, days |-> days,
                       deleted_count |-> DeletedCount(analyses, PurgeCutoff(clock, days))]
    /\ UNCHANGED <<clock, purgeFrame>>

\* save_analysis of a finished run, from its document to the applied update_one
PurgePut ==
    /\ \E ticker \in Tickers :
         analyses' = UpdateOneUpsert(analyses, SaveFilter(ticker),
                        SaveDocument(ticker, AnalysisData(1, "result"), clock))
    /\ UNCHANGED <<clock, purged, purgeFrame>>

PurgeTick ==
    /\ clock + PurgeStep <= MaxPurgeClock
    /\ clock' = clock + PurgeStep
    /\ UNCHANGED <<analyses, purged, purgeFrame>>

PurgeInit ==
    /\ clock = 0
    /\ analyses = <<>>
    /\ users = <<>>
    /\ companies_list = <<>>
    /\ tasks = <<>>
    /\ sweeps = <<>>
    /\ fz = FzIdle
    /\ purged = NoPurge
    /\ pl = PlIdle
    /\ st = StIdle
    /\ rq = <<>>

PurgeNext == Purge \/ PurgePut \/ PurgeTick

PurgeSpec == PurgeInit /\ [][PurgeNext]_vars

----------------------------------------------------------------------------
(* run_full_analysis_background, statement by statement *)

\* run_quant_analysis: the indicators and the strategies are there, or every
\* one of them failed and the text carries N/A; it never raises
QuantOutcomes == {"ok", "failed"}

\* run_fundamental_analysis: the fused ratios, the error dict of
\* calculate_financial_ratios (formatted by the legacy branch), or an exception
\* turned into the error text
FundamentalOutcomes == {"ok", "insufficient", "exception"}

\* run_news_analysis: the report, or an exception turned into the error text
NewsOutcomes == {"ok", "failed"}

\* the text run_quant_analysis returns
QuantReport(run, outcome) ==
    IF outcome = "ok" THEN Text("quant", run) ELSE Text("quant_na", run)

\* the text run_fundamental_analysis returns
FundamentalReport(run, outcome) ==
    CASE outcome = "ok" -> Text("fundamental", run)
      [] outcome = "insufficient" -> Text("fundamental_legacy", run)
      [] OTHER -> Text("fundamental_error", run)

\* the text run_news_analysis returns
NewsReport(run, outcome) ==
    IF outcome = "ok" THEN Text("news", run) ELSE Text("news_error", run)

\* the order of the statements of the try block, synthesis before the reports
PlNextPcSynthFirst(pc) ==
    CASE pc = "quant" -> "synth"
      [] pc = "synth" -> "fundamental"
      [] pc = "fundamental" -> "news"
      [] pc = "news" -> "save"
      [] pc = "save" -> "update"
      [] OTHER -> "done"

\* the order of the statements of the try block
PlNextPc(pc) ==
    CASE pc = "quant" -> "fundamental"
      [] pc = "fundamental" -> "news"
      [] pc = "news" -> "synth"
      [] pc = "synth" -> "save"
      [] pc = "save" -> "update"
      [] OTHER -> "done"

\* analysis_data of the try block, from the run's locals
PlAnalysisData(p) ==
    [k \in {"quant", "fundamental", "news", "final"} |->
        CASE k = "quant" -> p.quant_report
          [] k = "fundamental" -> p.fundamental_report
          [] k = "news" -> p.news_report
          [] OTHER -> p.final_recommendation]

\* what the run hands to save_analysis: analysis_data, or error_data in the
\* except block
PlSavedData(p) == IF p.raised THEN ErrorData(p.run) ELSE PlAnalysisData(p)

\* quant_report = run_quant_analysis(ticker)
PlQuant ==
    /\ pl.pc = "quant"
    /\ \E outcome \in QuantOutcomes :
         pl' = [pl EXCEPT !.pc = PlNextPc("quant"),
                          !.quant_report = QuantReport(pl.run, outcome),
                          !.failed = IF outcome = "ok" THEN @ ELSE @ \cup {"quant"}]
    /\ UNCHANGED <<clock, analyses, plFrame>>

\* fundamental_report = run_fundamental_analysis(ticker)
PlFundamental ==
    /\ pl.pc = "fundamental"
    /\ \E outcome \in FundamentalOutcomes :
         pl' = [pl EXCEPT !.pc = PlNextPc("fundamental"),
                          !.fundamental_report = FundamentalReport(pl.run, outcome),
                          !.failed = IF outcome = "ok" THEN @ ELSE @ \cup {"fundamental"}]
    /\ UNCHANGED <<clock, analyses, plFrame>>

\* news_report = run_news_analysis(ticker)
PlNews ==
    /\ pl.pc = "news"
    /\ \E outcome \in NewsOutcomes :
         pl' = [pl EXCEPT !.pc = PlNextPc("news"),
                          !.news_report = NewsReport(pl.run, outcome),
                          !.failed = IF outcome = "ok" THEN @ ELSE @ \cup {"news"}]
    /\ UNCHANGED <<clock, analyses, plFrame>>

\* final_response = makeRequest(final_messages), and final_recommendation; an
\* exception leaves the try block for the except block
PlSynth ==
    /\ pl.pc = "synth"
    /\ \E outcome \in SynthOutcomes :
         pl' = [pl EXCEPT !.pc = IF outcome = "raise" THEN "save" ELSE PlNextPc("synth"),
                          !.raised = (outcome = "raise"),
                          !.final_recommendation =
                              IF outcome = "raise" THEN @
                              ELSE FinalRecommendation(pl.run, outcome),
                          !.failed = IF outcome = "result" THEN @ ELSE @ \cup {"synth"}]
    /\ UNCHANGED <<clock, analyses, plFrame>>

\* save_analysis is called: the document is built and update_one is sent
PlSave ==
    /\ pl.pc = "save"
    /\ pl' = [pl EXCEPT !.pc = PlNextPc("save"),
                        !.puts = @ + 1,
                        !.doc = SaveDocument(pl.ticker, PlSavedData(pl), clock)]
    /\ UNCHANGED <<clock, analyses, plFrame>>

\* the database applies update_one; the task ends
PlUpdate ==
    /\ pl.pc = "update"
    /\ analyses' = UpdateOneUpsert(analyses, SaveFilter(pl.ticker), pl.doc)
    /\ pl' = [pl EXCEPT !.pc = PlNextPc("update")]
    /\ UNCHANGED <<clock, plFrame>>

\* what the collection holds when the run starts: nothing, the reports of an
\* earlier run, or the error of an earlier run
PipeInitAnalyses ==
    {<<>>, <<SaveDocument("AAPL", AnalysisData(1, "result"), 0)>>,
     <<SaveDocument("AAPL", ErrorData(1), 0)>>}

PipeInit ==
    /\ clock = 0
    /\ analyses \in PipeInitAnalyses
    /\ users = <<>>
    /\ companies_list = <<>>
    /\ tasks = <<>>
    /\ sweeps = <<>>
    /\ fz = FzIdle
    /\ purged = NoPurge
    /\ \E ticker \in Tickers : pl = PlStart(ticker, 2)
    /\ st = StIdle
    /\ rq = <<>>

PipeNext ==
    \/ PlQuant
    \/ PlFundamental
    \/ PlNews
    \/ PlSynth
    \/ PlSave
    \/ PlUpdate
    \/ Tick

PipeSpec == PipeInit /\ [][PipeNext]_vars

----------------------------------------------------------------------------
(* the read endpoints of kakao.py *)

\* max_age_hours of the read endpoints
ReadMaxAge == 24

\* text.strip() == ""
IsBlank(text) == text = EmptyStr

\* bool(value) of a stored field
Truthy(value) == value # NoneVal /\ value # EmptyStr

\* UserDB.get_user_tickers(user_id)
GetUserTickers(coll, user_id) ==
    IF \E i \in 1..Len(coll) : coll[i].user_id = user_id
    THEN coll[Min({i \in 1..Len(coll) : coll[i].user_id = user_id})].tickers
    ELSE <<>>

\* /message, one round of the loop: analysis_data['final'] raises TypeError when
\* get_analysis returned None
MessageLine(coll, ticker, now) ==
    LET analysis_data == GetAnalysis(coll, ticker, ReadMaxAge, now)
    IN IF analysis_data = NoAnalysis
       THEN [ticker |-> ticker, kind |-> "raise", text |-> NoneVal]
       ELSE IF ~IsBlank(analysis_data.final)
            THEN [ticker |-> ticker, kind |-> "result", text |-> analysis_data.final]
            ELSE [ticker |-> ticker, kind |-> "not_ready", text |-> NoneVal]

\* /message: the handler has no try block, so an exception in the loop leaves it
MessageResponse(coll, tickers, now) ==
    LET lines == [i \in 1..Len(tickers) |-> MessageLine(coll, tickers[i], now)]
    IN IF \E i \in 1..Len(tickers) : lines[i].kind = "raise"
       THEN [kind |-> "unhandled", lines |-> <<>>]
       ELSE [kind |-> "ok", lines |-> lines]

\* /detail: the utterance cut to six characters, digits and upper-case letters
\* kept; "" stands for a result whose length is not 6
DetailTicker(utterance) ==
    CASE utterance = "005930" -> "005930"
      [] OTHER -> ""

\* /detail
DetailResponse(coll, watched, utterance, now) ==
    LET ticker == DetailTicker(utterance)
        analysis_data == GetAnalysis(coll, ticker, ReadMaxAge, now)
    IN IF utterance = "" \/ ticker = ""
       THEN [kind |-> "prompt", text |-> NoneVal]
       ELSE IF ticker \notin watched
       THEN [kind |-> "not_watched", text |-> NoneVal]
       ELSE IF analysis_data = NoAnalysis
       THEN [kind |-> "processing", text |-> NoneVal]
       ELSE IF IsBlank(analysis_data.final)
       THEN [kind |-> "processing", text |-> NoneVal]
       ELSE IF Truthy(analysis_data.error)
       THEN [kind |-> "error", text |-> analysis_data.error]
       ELSE [kind |-> "result", text |-> analysis_data.final]

\* /quant/{ticker}
QuantResponse(coll, ticker, now) ==
    LET analysis_data == GetAnalysis(coll, ticker, ReadMaxAge, now)
    IN IF analysis_data # NoAnalysis /\ Truthy(analysis_data.quant)
       THEN [kind |-> "result", text |-> analysis_data.quant]
       ELSE [kind |-> "not_ready", text |-> NoneVal]

\* get_all_unique_tickers()
AllUniqueTickers(user_coll, company_coll) == UserTickers(user_coll) \cup AllTickers(company_coll)

----------------------------------------------------------------------------
(* QuantTools: getCounterTrendStrategy and getTrendFollowingStrategy *)

\* everything but the strategies' own state
stFrame == <<clock, analyses, users, companies_list, tasks, sweeps, fz, purged, pl, rq>>

\* rolling(window=20) of getCounterTrendStrategy
BandWindow == 20

RECURSIVE SumSeq(_)
SumSeq(q) == IF q = <<>> THEN 0 ELSE Head(q) + SumSeq(Tail(q))

RECURSIVE SumSquares(_)
SumSquares(q) == IF q = <<>> THEN 0 ELSE Head(q) * Head(q) + SumSquares(Tail(q))

\* the rows of data['Close'].rolling(window) that end `back` rows before the
\* last one; <<>> stands for NaN, the value pandas gives with fewer rows
RollingWindow(data, window, back) ==
    IF window >= 1 /\ Len(data) - back >= window
    THEN SubSeq(data, Len(data) - back - window + 1, Len(data) - back)
    ELSE <<>>

\* Averages and deviations are compared exactly, as fractions brought to a
\* common denominator. With n rows of sum S and sum of squares Q:
\*   MA = S / n,  STD^2 = (n*Q - S*S) / (n*(n-1)),
\*   k*STD <= |MA - c|  iff  k*k*n*(n*Q - S*S) <= (n-1)*(S - n*c)^2
BandReached(w, c, kValue) ==
    kValue * kValue * Len(w) * (Len(w) * SumSquares(w) - SumSeq(w) * SumSeq(w))
        <= (Len(w) - 1) * (SumSeq(w) - Len(w) * c) * (SumSeq(w) - Len(w) * c)

\* k*STD < |MA - c|, the strict form of BandReached
BandPassed(w, c, kValue) ==
    kValue * kValue * Len(w) * (Len(w) * SumSquares(w) - SumSeq(w) * SumSeq(w))
        < (Len(w) - 1) * (SumSeq(w) - Len(w) * c) * (SumSeq(w) - Len(w) * c)

\* current_price < lower_band
StrictlyBelowLower(data, kValue) ==
    LET w == RollingWindow(data, BandWindow, 0)
        c == data[Len(data)]
    IN /\ w # <<>>
       /\ SumSeq(w) - Len(w) * c >= 0
       /\ BandPassed(w, c, kValue)

\* current_price <= lower_band; False when the band is NaN
AtOrBelowLower(data, kValue) ==
    LET w == RollingWindow(data, BandWindow, 0)
        c == data[Len(data)]
    IN /\ w # <<>>
       /\ SumSeq(w) - Len(w) * c >= 0
       /\ BandReached(w, c, kValue)

\* current_price >= upper_band; False when the band is NaN
AtOrAboveUpper(data, kValue) ==
    LET w == RollingWindow(data, BandWindow, 0)
        c == data[Len(data)]
    IN /\ w # <<>>
       /\ Len(w) * c - SumSeq(w) >= 0
       /\ BandReached(w, c, kValue)

StrategyError == [kind |-> "error", signal |-> ""]

StrategySignal(signal) == [kind |-> "signal", signal |-> signal]

\* getCounterTrendStrategy, from the price history to the returned dict
GetCounterTrendStrategy(data, kValue) ==
    IF data = <<>> THEN StrategyError
    ELSE IF AtOrBelowLower(data, kValue) THEN StrategySignal("BUY")
    ELSE IF AtOrAboveUpper(data, kValue) THEN StrategySignal("SELL")
    ELSE StrategySignal("HOLD")

\* a <= b with < in its place
MeanLeStrict(a, b) ==
    /\ a # <<>> /\ b # <<>>
    /\ SumSeq(a) * Len(b) < SumSeq(b) * Len(a)

\* mean(a) <= mean(b); False when either is NaN
MeanLe(a, b) ==
    /\ a # <<>> /\ b # <<>>
    /\ SumSeq(a) * Len(b) <= SumSeq(b) * Len(a)

\* mean(a) > mean(b); False when either is NaN
MeanGt(a, b) ==
    /\ a # <<>> /\ b # <<>>
    /\ SumSeq(a) * Len(b) > SumSeq(b) * Len(a)

\* getTrendFollowingStrategy; iloc[-2] raises IndexError on a single row
GetTrendFollowingStrategy(data, shortPeriod, longPeriod) ==
    LET current_short == RollingWindow(data, shortPeriod, 0)
        current_long == RollingWindow(data, longPeriod, 0)
        prev_short == RollingWindow(data, shortPeriod, 1)
        prev_long == RollingWindow(data, longPeriod, 1)
    IN IF data = <<>> \/ Len(data) < 2 THEN StrategyError
       ELSE IF MeanLe(prev_short, prev_long) /\ MeanGt(current_short, current_long)
       THEN StrategySignal("BUY")
       ELSE IF MeanLe(prev_long, prev_short) /\ MeanGt(current_long, current_short)
       THEN StrategySignal("SELL")
       ELSE IF MeanGt(current_short, current_long)
       THEN StrategySignal("HOLD_BULLISH")
       ELSE StrategySignal("HOLD_BEARISH")

\* the histories yfinance can return: short ones over Prices, and twenty-row
\* ones that put the last close on, inside and outside the bands
ShortHistories == UNION {[1..n -> Prices] : n \in 0..MaxRows}

\* nineteen closes of mean 10 once a twentieth close of 6 is added (STD = 2)
BandPrefix == <<14, 14, 14, 11, 11, 9, 9, 9, 9, 9, 9, 9, 9, 9, 9, 10, 10, 10, 10>>

\* the same closes mirrored around 10
MirrorPrefix == [i \in 1..Len(BandPrefix) |-> 20 - BandPrefix[i]]

FlatPrefix == [i \in 1..Len(BandPrefix) |-> 10]

BandCloses == {5, 6, 7, 10, 13, 14, 15}

LongHistories ==
    {Append(prefix, c) : prefix \in {BandPrefix, MirrorPrefix, FlatPrefix}, c \in BandCloses}
        \cup {[i \in 1..BandWindow |-> i], [i \in 1..BandWindow |-> BandWindow + 1 - i]}

Histories == ShortHistories \cup LongHistories

\* kValue; run_quant_analysis passes 2.0
KValues == {1, 2}

\* <<shortPeriod, longPeriod>>; run_quant_analysis passes 5 and 20
PeriodPairs == {<<1, 2>>, <<2, 3>>, <<2, 2>>, <<5, 20>>}

\* the days asked of get_daily_candles: no more rows than that come back
FetchedRows(shortPeriod, longPeriod) ==
    (IF shortPeriod >= longPeriod THEN shortPeriod ELSE longPeriod) + 10

StCounterTrend ==
    /\ st.counter = NotCalled
    /\ st' = [st EXCEPT !.counter = GetCounterTrendStrategy(st.data, st.kValue)]
    /\ UNCHANGED stFrame

StTrendFollowing ==
    /\ st.trend = NotCalled
    /\ st' = [st EXCEPT !.trend =
                GetTrendFollowingStrategy(st.data, st.shortPeriod, st.longPeriod)]
    /\ UNCHANGED stFrame

\* rolling(window=14) of the RSI in get_technical_indicators
RsiWindow == 14

\* the sum of the last fourteen rows of delta.where(delta > 0, 0) (sign = 1)
\* or of -delta.where(delta < 0, 0) (sign = -1); the first row of delta is
\* NaN, which where() replaces by 0
RsiSum(data, sign) ==
    LET delta(i) == IF i = 1 THEN 0 ELSE sign * (data[i] - data[i - 1])
    IN SumSeq([j \in 1..RsiWindow |->
                 IF delta(Len(data) - RsiWindow + j) > 0
                 THEN delta(Len(data) - RsiWindow + j) ELSE 0])

\* technical.get('rsi', 'N/A') as run_quant_analysis prints it: "N/A" when
\* get_technical_indicators returned {}, "nan" when rsi.iloc[-1] is NaN, and
\* else the number 100 - 100 / (1 + gain / loss) = num / den, where a zero
\* loss makes gain / loss infinite and the number 100
ReportedRsi(data) ==
    IF data = <<>> THEN [kind |-> "N/A", num |-> 0, den |-> 1]
    ELSE IF Len(data) < RsiWindow THEN [kind |-> "nan", num |-> 0, den |-> 1]
    ELSE IF RsiSum(data, -1) = 0
         THEN IF RsiSum(data, 1) = 0 THEN [kind |-> "nan", num |-> 0, den |-> 1]
              ELSE [kind |-> "number", num |-> 100, den |-> 1]
    ELSE [kind |-> "number", num |-> 100 * RsiSum(data, 1),
          den |-> RsiSum(data, 1) + RsiSum(data, -1)]

\* run_quant_analysis reads the indicators
StTechnical ==
    /\ st.rsi.kind = "not_called"
    /\ st' = [st EXCEPT !.rsi = ReportedRsi(st.data)]
    /\ UNCHANGED stFrame

StratInit ==
    /\ clock = 0
    /\ analyses = <<>>
    /\ users = <<>>
    /\ companies_list = <<>>
    /\ tasks = <<>>
    /\ sweeps = <<>>
    /\ fz = FzIdle
    /\ purged = NoPurge
    /\ pl = PlIdle
    /\ \E data \in Histories, kValue \in KValues, periods \in PeriodPairs :
         /\ Len(data) <= FetchedRows(periods[1], periods[2])
         /\ st = StStart(data, kValue, periods[1], periods[2])
    /\ rq = <<>>

StratNext == StCounterTrend \/ StTrendFollowing \/ StTechnical

StratSpec == StratInit /\ [][StratNext]_vars

----------------------------------------------------------------------------
(* POST /add: analyze_stock and process_ticker_analysis_callback *)

\* get_analysis(ticker, max_age_hours=12) of both paths of the add command
AddMaxAge == 12

\* everything but the requests, the watchlists, the tasks, the records and the clock
addFrame == <<companies_list, sweeps, fz, purged, pl, st>>

\* a request with a ticker in the direct format arrives, with a callbackUrl
\* (process_ticker_analysis_callback is created) or without one
AddRequest ==
    /\ Len(rq) < MaxRequests
    /\ \E path \in {"callback", "immediate"}, user_id \in {"u1"}, ticker \in {"AAPL", "005930"} :
         rq' = Append(rq, [path |-> path, user_id |-> user_id, ticker |-> ticker,
                           pc |-> "find", added |-> FALSE, task |-> 0])
    /\ UNCHANGED <<clock, analyses, users, tasks, addFrame>>

\* add_user_ticker: find_one({"user_id": user_id}) and the tests on its result
AddFind(r) ==
    /\ rq[r].pc = "find"
    /\ LET hits == {i \in 1..Len(users) : users[i].user_id = rq[r].user_id}
       IN rq' = [rq EXCEPT ![r].pc =
                    IF hits = {} THEN "insert"
                    ELSE IF rq[r].ticker \in SeqToSet(users[Min(hits)].tickers) THEN "tickers"
                    ELSE "push"]
    /\ UNCHANGED <<clock, analyses, users, tasks, addFrame>>

\* add_user_ticker: update_one with $push on the first document of the user
AddPush(r) ==
    /\ rq[r].pc = "push"
    /\ LET hits == {i \in 1..Len(users) : users[i].user_id = rq[r].user_id}
       IN users' = IF hits = {} THEN users
                   ELSE [users EXCEPT ![Min(hits)].tickers = Append(@, rq[r].ticker)]
    /\ rq' = [rq EXCEPT ![r].pc = "tickers", ![r].added = TRUE]
    /\ UNCHANGED <<clock, analyses, tasks, addFrame>>

\* add_user_ticker: insert_one of a new watchlist document
AddInsert(r) ==
    /\ rq[r].pc = "insert"
    /\ users' = Append(users, [user_id |-> rq[r].user_id, tickers |-> <<rq[r].ticker>>])
    /\ rq' = [rq EXCEPT ![r].pc = "tickers", ![r].added = TRUE]
    /\ UNCHANGED <<clock, analyses, tasks, addFrame>>

\* get_all_unique_tickers and the test on it: a ticker nobody watches is
\* analysed at once, without a look at its record
AddUnique(r) ==
    /\ rq[r].pc = "tickers"
    /\ IF rq[r].ticker \notin AllUniqueTickers(users, companies_list)
       THEN /\ tasks' = Append(tasks, NewTask(rq[r].ticker, 0))
            /\ rq' = [rq EXCEPT ![r].pc = "started", ![r].task = Len(tasks) + 1]
       ELSE /\ rq' = [rq EXCEPT ![r].pc = "get"]
            /\ UNCHANGED tasks
    /\ UNCHANGED <<clock, analyses, users, addFrame>>

\* get_analysis(ticker, 12) and the test on it: the callback path analyses
\* when there is no record or its final text is blank, the immediate path
\* when there is no record
AddGet(r) ==
    /\ rq[r].pc = "get"
    /\ LET analysis_data == GetAnalysis(analyses, rq[r].ticker, AddMaxAge, clock)
           analysis_needed ==
               \/ analysis_data = NoAnalysis
               \/ rq[r].path = "callback" /\ IsBlank(analysis_data.final)
       IN IF analysis_needed
          THEN /\ tasks' = Append(tasks, NewTask(rq[r].ticker, 0))
               /\ rq' = [rq EXCEPT ![r].pc = "started", ![r].task = Len(tasks) + 1]
          ELSE /\ rq' = [rq EXCEPT ![r].pc = "done"]
               /\ UNCHANGED tasks
    /\ UNCHANGED <<clock, analyses, users, addFrame>>

AddTick ==
    /\ clock + AddStep <= MaxAddClock
    /\ clock' = clock + AddStep
    /\ UNCHANGED <<analyses, users, tasks, rq, addFrame>>

AddInit ==
    /\ clock = 0
    /\ analyses = <<>>
    /\ users \in {<<>>, <<[user_id |-> "u1", tickers |-> <<"AAPL">>]>>}
    /\ companies_list = <<>>
    /\ tasks = <<>>
    /\ sweeps = <<>>
    /\ fz = FzIdle
    /\ purged = NoPurge
    /\ pl = PlIdle
    /\ st = StIdle
    /\ rq = <<>>

AddNext ==
    \/ AddRequest
    \/ \E r \in 1..Len(rq) : AddFind(r)
    \/ \E r \in 1..Len(rq) : AddPush(r)
    \/ \E r \in 1..Len(rq) : AddInsert(r)
    \/ \E r \in 1..Len(rq) : AddUnique(r)
    \/ \E r \in 1..Len(rq) : AddGet(r)
    \/ \E i \in 1..Len(tasks) : RunPipeline(i)
    \/ \E i \in 1..Len(tasks) : DbUpdate(i)
    \/ AddTick

AddSpec == AddInit /\ [][AddNext]_vars

----------------------------------------------------------------------------
(* scheduled_analysis on the event loop: blocking calls and the timeout *)

\* run_full_analysis_background calls requests and yfinance synchronously and
\* without a timeout: a call that never returns keeps the task, and with it
\* the thread of the event loop, inside the call
PipelineBlocks(i) ==
    /\ tasks[i].pc = "created"
    /\ tasks' = [tasks EXCEPT ![i].pc = "blocked"]
    /\ UNCHANGED <<clock, analyses, users, companies_list, sweeps, fz, auxVars>>

\* wait_for(..., timeout=7200) expires: gather and the tasks still outstanding
\* are cancelled, and the sweep goes on to its last lines
SweepTimeout(s) ==
    /\ sweeps[s].pc = "wait"
    /\ \E i \in sweeps[s].launched : tasks[i].pc # "done"
    /\ tasks' = [i \in 1..Len(tasks) |->
                   IF i \in sweeps[s].launched /\ tasks[i].pc # "done"
                   THEN [tasks[i] EXCEPT !.pc = "cancelled"] ELSE tasks[i]]
    /\ sweeps' = [sweeps EXCEPT ![s].pc = "done"]
    /\ UNCHANGED <<clock, analyses, users, companies_list, fz, auxVars>>

\* what the event loop runs, one callback at a time, while no task holds its
\* thread: the steps of the one sweep, the start of a pipeline, the timer
LoopSteps ==
    /\ \A i \in 1..Len(tasks) : tasks[i].pc # "blocked"
    /\ \/ sweeps = <<>> /\ StartSweep
       \/ \E s \in 1..Len(sweeps) :
            SweepUsers(s) \/ SweepCompanies(s) \/ SweepLaunch(s)
                \/ SweepGathered(s) \/ SweepTimeout(s)
       \/ \E i \in 1..Len(tasks) : RunPipeline(i) \/ PipelineBlocks(i)

\* the database answers or not, as it pleases
LiveNext == LoopSteps \/ \E i \in 1..Len(tasks) : DbUpdate(i)

\* the event loop does not stop by itself: while it has a callback to run, it runs one
LiveSpec == Init /\ [][LiveNext]_vars /\ WF_vars(LoopSteps)

----------------------------------------------------------------------------
(* Claims about the cache and the pipelines, under Spec *)

\* the tasks that have run their pipeline and whose update_one is still in flight
Executing(i) == tasks[i].pc = "update"

\* C1: for every ticker at most one pipeline is executing at any moment, so two
\* refresh requests for one ticker made while the first is in flight lead to one
\* pipeline execution and one save_analysis call.
C1_OnePipelinePerTicker ==
    \A i, j \in 1..Len(tasks) :
        (i # j /\ Upper(tasks[i].ticker) = Upper(tasks[j].ticker))
            => ~(Executing(i) /\ Executing(j))

\* the documents stored for the record key of a ticker
RecordsOf(t) == {k \in 1..Len(analyses) : analyses[k].ticker = Upper(t)}

\* the age of a stored document, in seconds
Age(k) == clock - analyses[k].timestamp

\* C8: get_analysis(ticker, max_age_hours) returns None if the ticker has no
\* record or its record is older than max_age_hours, and the record otherwise:
\* with max_age_hours = 1 the record is returned while it is at most an hour old
\* and None once the clock has advanced by more than an hour.
C8_GetWithinMaxAge ==
    \A t \in Tickers, h \in MaxAgeInputs :
        LET r == GetAnalysis(analyses, t, h, clock)
        IN IF \A k \in RecordsOf(t) : Age(k) > h * 3600
           THEN r = NoAnalysis
           ELSE \E k \in RecordsOf(t) :
                    /\ Age(k) <= h * 3600
                    /\ r.timestamp = analyses[k].timestamp
                    /\ r.quant = analyses[k].quant_analysis
                    /\ r.fundamental = analyses[k].fundamental_analysis
                    /\ r.news = analyses[k].news_analysis
                    /\ r.final = analyses[k].final_recommendation
                    /\ r.error = analyses[k].error

\* a record put more than an hour ago: absent for max_age_hours = 1, still
\* returned for max_age_hours = 12, whichever case the ticker is written in
C8_Witness ==
    \E k \in 1..Len(analyses) :
        /\ analyses[k].ticker = "AAPL"
        /\ Age(k) > 3600
        /\ GetAnalysis(analyses, "aapl", 1, clock) = NoAnalysis
        /\ GetAnalysis(analyses, "aapl", 12, clock) # NoAnalysis

\* the record holds the complete result of run i saved at its timestamp
WholeResultOf(doc, i) ==
    \E outcome \in SynthOutcomes :
        /\ doc.quant_analysis = DictGet(SavedData(i, outcome), "quant", EmptyStr)
        /\ doc.fundamental_analysis = DictGet(SavedData(i, outcome), "fundamental", EmptyStr)
        /\ doc.news_analysis = DictGet(SavedData(i, outcome), "news", EmptyStr)
        /\ doc.final_recommendation = DictGet(SavedData(i, outcome), "final", EmptyStr)
        /\ doc.error = DictGet(SavedData(i, outcome), "error", NoneVal)

\* at most one record per upper-case ticker, each the complete result of one run
OneWholeRecordPerTicker ==
    /\ \A k, l \in 1..Len(analyses) : analyses[k].ticker = analyses[l].ticker => k = l
    /\ \A k \in 1..Len(analyses) :
         /\ \E t \in Tickers : analyses[k].ticker = Upper(t)
         /\ \E i \in 1..Len(tasks) :
              /\ Upper(tasks[i].ticker) = analyses[k].ticker
              /\ WholeResultOf(analyses[k], i)

\* the put of task i is applied in this step
PutApplied(i) == tasks[i].pc = "update" /\ tasks'[i].pc = "done"

\* the put that is applied becomes the record of its ticker, field for field,
\* and the other records stay as they are
LastPutWins ==
    \A i \in 1..Len(tasks) :
        PutApplied(i) =>
            /\ \E k \in 1..Len(analyses') : analyses'[k] = tasks[i].doc
            /\ \A k \in 1..Len(analyses) :
                 analyses[k].ticker # Upper(tasks[i].ticker) => analyses'[k] = analyses[k]

\* C9: after any interleaving of save_analysis calls the collection holds at most
\* one record per upper-case ticker, and that record is, in all its fields, the
\* most recent put: racing pipelines leave one complete result, never a mix.
C9_OneRecordLastWriteWins == [][OneWholeRecordPerTicker' /\ LastPutWins]_vars

\* two runs, one for "aapl" and one for "AAPL", have both put; one record is left
C9_Witness ==
    /\ \E i, j \in 1..Len(tasks) :
         /\ tasks[i].ticker = "aapl" /\ tasks[i].pc = "done"
         /\ tasks[j].ticker = "AAPL" /\ tasks[j].pc = "done"
    /\ Cardinality(RecordsOf("AAPL")) = 1

\* C10: a put replaces the whole record: a field the caller does not supply is
\* reset to its default, so a record written by the except block carries the
\* error and no text of an earlier record, and a record written by the try block
\* carries four texts of one run and no error of an earlier record.
C10_PutReplacesWholeRecord ==
    \A k \in 1..Len(analyses) :
        IF analyses[k].error # NoneVal
        THEN /\ analyses[k].quant_analysis = EmptyStr
             /\ analyses[k].fundamental_analysis = EmptyStr
             /\ analyses[k].news_analysis = EmptyStr
             /\ analyses[k].final_recommendation = EmptyStr
        ELSE /\ analyses[k].quant_analysis # EmptyStr
             /\ analyses[k].fundamental_analysis.run = analyses[k].quant_analysis.run
             /\ analyses[k].news_analysis.run = analyses[k].quant_analysis.run
             /\ analyses[k].final_recommendation # EmptyStr

\* a run that saved its reports was followed by an error-only put for the same
\* ticker: the record now carries the error of the later run
C10_Witness ==
    \E i, j \in 1..Len(tasks), k \in 1..Len(analyses) :
        /\ tasks[i].pc = "done" /\ tasks[i].outcome = "result"
        /\ tasks[j].pc = "done" /\ tasks[j].outcome = "raise"
        /\ Upper(tasks[i].ticker) = Upper(tasks[j].ticker)
        /\ analyses[k].ticker = Upper(tasks[j].ticker)
        /\ analyses[k].error = Text("error", j)

----------------------------------------------------------------------------
(* Claims about calculate_financial_ratios, under FuseSpec *)

\* the values that count as empty
EmptyValues == {PyNone, Num(0), NA}

NineCritical ==
    {"revenue", "net_income", "market_cap", "pe_ratio", "pb_ratio", "roe", "roa",
     "debt_ratio", "current_ratio"}

\* the critical metrics a metric set holds with a non-empty value
Present(fm) == {m \in NineCritical : m \in DOMAIN fm /\ fm[m] \notin EmptyValues}

\* C2: once a metric holds a non-empty value (not None, 0 or "N/A") written by
\* an earlier provider, no later provider changes it: with pe_ratio = 10 from
\* the first provider and pe_ratio = 99 from the second, the fused pe_ratio is 10.
C2_FirstWriterWins ==
    [][\A m \in DOMAIN fz.financial_metrics :
          fz.financial_metrics[m] \notin EmptyValues
              => /\ m \in DOMAIN fz'.financial_metrics
                 /\ fz'.financial_metrics[m] = fz.financial_metrics[m]]_vars

\* Naver Finance gave pe_ratio = 10, yfinance then offered pe_ratio = 99
C2_Witness ==
    /\ fz.pc = "alternative"
    /\ fz.data_sources_used = <<"naver_finance", "yfinance">>
    /\ "pe_ratio" \in DOMAIN fz.provided /\ fz.provided["pe_ratio"] = Num(99)
    /\ "pe_ratio" \in DOMAIN fz.financial_metrics
    /\ fz.financial_metrics["pe_ratio"] = Num(10)

\* C3: a value of 0, None or "N/A" returned by any provider is treated as
\* missing: it is never stored as a filled value.
C3_EmptyNeverStored ==
    \A m \in DOMAIN fz.financial_metrics : fz.financial_metrics[m] \notin EmptyValues

\* C4: after a run the quality score is (the number of the nine critical metrics
\* present with a non-empty value) / 9 * 100, so it lies in [0, 100]. The score
\* is held as its numerator over 9.
C4_QualityScore ==
    fz.pc = "done" =>
        /\ fz.data_quality_score = Cardinality(Present(fz.financial_metrics)) * 100
        /\ fz.data_quality_score >= 0 * 9
        /\ fz.data_quality_score <= 100 * 9

\* a run that ends with two metrics filled and a third holding "N/A"
C4_Witness ==
    /\ fz.pc = "done"
    /\ fz.data_quality_score = 200
    /\ \E m \in NineCritical :
         m \in DOMAIN fz.financial_metrics /\ fz.financial_metrics[m] = NA

\* C5: the quality score of the fused set never goes down along the fallback
\* chain, because a source never removes or empties a metric already filled.
C5_ScoreNeverDecreases ==
    [][/\ Present(fz.financial_metrics) \subseteq Present(fz'.financial_metrics)
       /\ Cardinality(Present(fz'.financial_metrics)) * 100
            >= Cardinality(Present(fz.financial_metrics)) * 100]_vars

\* three sources in a row, each of which raised the score
C5_Witness ==
    /\ fz.pc = "done"
    /\ fz.data_sources_used = <<"naver_finance", "yfinance", "yfinance_alternative">>
    /\ fz.data_quality_score = 500
    /\ \E m \in DOMAIN fz.financial_metrics : fz.financial_metrics[m] = Num(10)
    /\ \E m \in DOMAIN fz.financial_metrics : fz.financial_metrics[m] = Num(99)
    /\ \E m \in DOMAIN fz.financial_metrics :
         fz.financial_metrics[m] \in {Num(5), Num(500)}

FromPrimary(fm) == {m \in DOMAIN fm : fm[m] = Num(10)}

FromSecondary(fm) == {m \in DOMAIN fm : fm[m] = Num(99)}

\* C7: for a domestic ticker where the primary provider supplies revenue and
\* ROE and the secondary supplies market_cap and PER, and nothing else is
\* supplied, the fused result holds the four and sources_used is exactly
\* [primary, secondary].
C7_DomesticScenario ==
    (/\ fz.pc = "done"
     /\ IsKoreanStock(fz.ticker)
     /\ FromPrimary(fz.financial_metrics) = {"revenue", "roe"}
     /\ FromSecondary(fz.financial_metrics) = {"market_cap", "pe_ratio"}
     /\ DOMAIN fz.financial_metrics = {"revenue", "roe", "market_cap", "pe_ratio"})
        => /\ ~fz.returned.error
           /\ fz.data_sources_used = <<"naver_finance", "yfinance">>

----------------------------------------------------------------------------
(* Claims about delete_old_analyses, under PurgeSpec *)

\* a delete_old_analyses call returns in this step
PurgeReturned == purged'.calls = purged.calls + 1

\* the stored documents older than days * 24 hours
OlderThanDays(days) ==
    {k \in 1..Len(analyses) : clock - analyses[k].timestamp > days * 24 * 3600}

\* C11: delete_old_analyses(days) deletes exactly the records whose timestamp is
\* older than days * 24 hours, leaves every other record as it was, and returns
\* the number of records it removed.
C11_PurgeExactlyOlder ==
    [][PurgeReturned =>
         /\ \A k \in 1..Len(analyses) :
              k \in OlderThanDays(purged'.days)
                 <=> ~(\E l \in 1..Len(analyses') : analyses'[l] = analyses[k])
         /\ Len(analyses') = Len(analyses) - Cardinality(OlderThanDays(purged'.days))
         /\ purged'.deleted_count = Cardinality(OlderThanDays(purged'.days))]_vars

\* a purge with days = 7 removed one record and kept one that was exactly seven
\* days old
C11_Witness ==
    /\ purged.days = 7
    /\ purged.deleted_count = 1
    /\ \E k \in 1..Len(analyses) : clock - analyses[k].timestamp = 7 * 24 * 3600

----------------------------------------------------------------------------
(* Claims about one pipeline run, under PipeSpec *)

\* the record stored under the key of the run's ticker
PlRecords == {k \in 1..Len(analyses) : analyses[k].ticker = Upper(pl.ticker)}

\* C12: if any stage of a run fails (technical calculation, fusion returning
\* InsufficientData, news fetch, synthesis) the run still writes a record for
\* its ticker, and that record has its error field populated.
C12_FailedStageSetsError ==
    (pl.pc = "done" /\ pl.failed # {}) =>
        \E k \in PlRecords :
            /\ analyses[k].timestamp = pl.doc.timestamp
            /\ analyses[k].error # NoneVal

\* C13: when the synthesis call fails or returns unusable content, the run
\* writes a record whose final text is the fixed fallback string and whose
\* quant, fundamental and news texts are those computed in that run.
C13_SynthesisFailureKeepsSections ==
    (pl.pc = "done" /\ "synth" \in pl.failed) =>
        \E k \in PlRecords :
            /\ analyses[k].final_recommendation = FallbackText
            /\ analyses[k].quant_analysis = pl.quant_report
            /\ analyses[k].fundamental_analysis = pl.fundamental_report
            /\ analyses[k].news_analysis = pl.news_report

\* the texts a reader gets for any ticker and any max_age_hours
VisibleTexts ==
    UNION {{GetAnalysis(analyses, t, h, clock).quant,
            GetAnalysis(analyses, t, h, clock).fundamental,
            GetAnalysis(analyses, t, h, clock).news,
            GetAnalysis(analyses, t, h, clock).final,
            GetAnalysis(analyses, t, h, clock).error} : t \in Tickers, h \in MaxAgeInputs}

\* the three reports of the run have been computed, well or badly
ReportsDone ==
    /\ pl.quant_report # NoneVal
    /\ pl.fundamental_report # NoneVal
    /\ pl.news_report # NoneVal

\* synthesis has been invoked and has returned or raised
SynthesisDone == pl.raised \/ pl.final_recommendation # NoneVal

\* C14: within one run the technical, fusion and news stages are over before
\* synthesis is invoked, synthesis is over before the cache write, a reader sees
\* no output of the run before its put is applied, and the run makes one put.
C14_StagesThenSynthesisThenOnePut ==
    /\ (pl.pc = "synth" \/ SynthesisDone) => ReportsDone
    /\ pl.puts > 0 => SynthesisDone
    /\ pl.pc # "done" => \A x \in VisibleTexts : x.run # pl.run
    /\ pl.puts <= 1
    /\ pl.pc = "done" => pl.puts = 1

\* synthesis returned nothing usable after the fundamental stage had failed; the
\* run has put once and its record is visible
C14_Witness ==
    /\ pl.pc = "done"
    /\ pl.failed = {"fundamental", "synth"}
    /\ ~pl.raised
    /\ pl.puts = 1
    /\ \E x \in VisibleTexts : x.run = pl.run

----------------------------------------------------------------------------
(* Claims about the read endpoints, under Spec *)

\* the /detail response for a ticker, against the current collections
DetailNow(t) ==
    DetailResponse(analyses, AllUniqueTickers(users, companies_list), t, clock)

\* the tickers /detail accepts and finds watched
DetailReadable(t) ==
    DetailTicker(t) = t /\ t \in AllUniqueTickers(users, companies_list)

\* C15: a read for a ticker that has no fresh record answers "still processing"
\* and never fails with an unhandled error, on every read endpoint, the
\* watchlist summary /message included.
C15_NoRecordReadsProcessing ==
    \A t \in Tickers :
        GetAnalysis(analyses, t, ReadMaxAge, clock) = NoAnalysis =>
            /\ DetailReadable(t) => DetailNow(t).kind = "processing"
            /\ QuantResponse(analyses, t, clock).kind = "not_ready"
            /\ \A u \in 1..Len(users) :
                 t \in SeqToSet(users[u].tickers) =>
                    LET r == MessageResponse(analyses,
                                GetUserTickers(users, users[u].user_id), clock)
                    IN /\ r.kind = "ok"
                       /\ \A i \in 1..Len(r.lines) :
                            r.lines[i].ticker = t => r.lines[i].kind = "not_ready"

\* C16: the detail view of a ticker whose record has its error field set shows
\* that error message, not "still in progress" and no other text; records
\* written by a failed run are among them.
C16_ErrorRecordShowsError ==
    \A t \in Tickers :
        LET analysis_data == GetAnalysis(analyses, t, ReadMaxAge, clock)
        IN (DetailReadable(t) /\ analysis_data # NoAnalysis /\ analysis_data.error # NoneVal)
              => /\ DetailNow(t).kind = "error"
                 /\ DetailNow(t).text = analysis_data.error

----------------------------------------------------------------------------
(* Claims about the strategies, under StratSpec *)

\* The claims measure the bands in two passes, from the deviations of the
\* rows from their mean, and the averages pair by pair; the program's side
\* above uses sums and sums of squares.

\* sum over the rows of w of (n*x - S)^2, that is n^2 times the squared
\* deviations from the mean
RECURSIVE Deviations(_, _, _)
Deviations(w, n, S) ==
    IF w = <<>> THEN 0
    ELSE (n * Head(w) - S) * (n * Head(w) - S) + Deviations(Tail(w), n, S)

LastRows(data, n) == SubSeq(data, Len(data) - n + 1, Len(data))

Close(data) == data[Len(data)]

BandsExist(data) == Len(data) >= BandWindow

\* n * (MA - close) for the last twenty rows
BelowMean(data) ==
    SumSeq(LastRows(data, BandWindow)) - BandWindow * Close(data)

\* (n * k * STD)^2 * (n - 1) against (n * (MA - close))^2 * (n - 1)
BandWidthSq(data, kValue) ==
    kValue * kValue *
        Deviations(LastRows(data, BandWindow), BandWindow,
                   SumSeq(LastRows(data, BandWindow)))

GapSq(data) == (BandWindow - 1) * BelowMean(data) * BelowMean(data)

CloseLeLower(data, kValue) ==
    BandsExist(data) /\ BelowMean(data) >= 0 /\ BandWidthSq(data, kValue) <= GapSq(data)

CloseGeUpper(data, kValue) ==
    BandsExist(data) /\ BelowMean(data) <= 0 /\ BandWidthSq(data, kValue) <= GapSq(data)

CloseOnLower(data, kValue) ==
    BandsExist(data) /\ BelowMean(data) >= 0 /\ BandWidthSq(data, kValue) = GapSq(data)

CloseOnUpper(data, kValue) ==
    BandsExist(data) /\ BelowMean(data) <= 0 /\ BandWidthSq(data, kValue) = GapSq(data)

CounterReturned == st.counter # NotCalled /\ st.data # <<>>

\* C17 (as the code has it): getCounterTrendStrategy tests the lower band
\* first. It returns BUY exactly when the last close is <= the lower band,
\* SELL exactly when the last close is >= the upper band and above the lower
\* band, and HOLD otherwise; a close on the lower band gives BUY, and a close
\* on the upper band gives SELL unless it is on the lower band as well.
C17_BandsInclusiveLowerFirst ==
    CounterReturned =>
        /\ st.counter.kind = "signal"
        /\ st.counter.signal = "BUY" <=> CloseLeLower(st.data, st.kValue)
        /\ st.counter.signal = "SELL" <=>
             (CloseGeUpper(st.data, st.kValue) /\ ~CloseLeLower(st.data, st.kValue))
        /\ st.counter.signal = "HOLD" <=>
             (~CloseGeUpper(st.data, st.kValue) /\ ~CloseLeLower(st.data, st.kValue))
        /\ CloseOnLower(st.data, st.kValue) => st.counter.signal = "BUY"
        /\ (CloseOnUpper(st.data, st.kValue) /\ ~CloseOnLower(st.data, st.kValue))
             => st.counter.signal = "SELL"

\* the strategy has answered for a close exactly on a lower band that lies
\* below the upper band
C17_Witness ==
    /\ CounterReturned
    /\ CloseOnLower(st.data, st.kValue)
    /\ ~CloseOnUpper(st.data, st.kValue)
    /\ BandWidthSq(st.data, st.kValue) > 0
    /\ st.counter.signal = "BUY"

\* C17 as stated: BUY when the last close is <= the lower band, SELL when it
\* is >= the upper band, HOLD otherwise; a close equal to the upper band
\* gives SELL.
C17_AsStated ==
    CounterReturned =>
        /\ CloseLeLower(st.data, st.kValue) => st.counter.signal = "BUY"
        /\ CloseGeUpper(st.data, st.kValue) => st.counter.signal = "SELL"
        /\ (~CloseLeLower(st.data, st.kValue) /\ ~CloseGeUpper(st.data, st.kValue))
             => st.counter.signal = "HOLD"
        /\ CloseOnLower(st.data, st.kValue) => st.counter.signal = "BUY"
        /\ CloseOnUpper(st.data, st.kValue) => st.counter.signal = "SELL"

\* sum over the pairs of a row of a and a row of b of (x - y): its sign is
\* the sign of mean(a) - mean(b)
RECURSIVE RowMinus(_, _)
RowMinus(x, b) == IF b = <<>> THEN 0 ELSE (x - Head(b)) + RowMinus(x, Tail(b))

RECURSIVE PairDiff(_, _)
PairDiff(a, b) == IF a = <<>> THEN 0 ELSE RowMinus(Head(a), b) + PairDiff(Tail(a), b)

\* the rows of the window of `period` rows that ends `back` rows before the last
WindowRows(data, period, back) ==
    SubSeq(data, Len(data) - back - period + 1, Len(data) - back)

\* mean of the short window minus mean of the long window, up to a positive
\* factor, at the last step (back = 0) and at the step before (back = 1)
ShortMinusLong(back) ==
    PairDiff(WindowRows(st.data, st.shortPeriod, back),
             WindowRows(st.data, st.longPeriod, back))

AveragesExist ==
    /\ Len(st.data) >= st.shortPeriod + 1
    /\ Len(st.data) >= st.longPeriod + 1

TrendReturned == st.trend # NotCalled /\ AveragesExist

\* C18: getTrendFollowingStrategy returns BUY exactly when prev short <= prev
\* long and current short > current long, SELL exactly when prev short >=
\* prev long and current short < current long, and otherwise HOLD_BULLISH if
\* current short > current long, else HOLD_BEARISH; when the two averages
\* are equal at both steps the answer is HOLD_BEARISH.
C18_CrossoverSignals ==
    TrendReturned =>
        /\ st.trend.kind = "signal"
        /\ st.trend.signal = "BUY" <=>
             (ShortMinusLong(1) <= 0 /\ ShortMinusLong(0) > 0)
        /\ st.trend.signal = "SELL" <=>
             (ShortMinusLong(1) >= 0 /\ ShortMinusLong(0) < 0)
        /\ st.trend.signal = "HOLD_BULLISH" <=>
             (ShortMinusLong(1) > 0 /\ ShortMinusLong(0) > 0)
        /\ st.trend.signal = "HOLD_BEARISH" <=>
             (ShortMinusLong(0) = 0 \/ (ShortMinusLong(1) < 0 /\ ShortMinusLong(0) < 0))
        /\ (ShortMinusLong(1) = 0 /\ ShortMinusLong(0) = 0)
             => st.trend.signal = "HOLD_BEARISH"

\* the strategy has answered BUY for a crossover that starts from equal
\* averages
C18_Witness ==
    /\ TrendReturned
    /\ ShortMinusLong(1) = 0
    /\ ShortMinusLong(0) > 0
    /\ st.trend.signal = "BUY"

\* C19: counterTrend with fewer than twenty rows, and trendFollowing with
\* fewer than longPeriod + 1 rows, fail and never return a signal.
C19_ShortHistoryFails ==
    /\ (st.counter # NotCalled /\ Len(st.data) < BandWindow)
         => st.counter.kind = "error"
    /\ (st.trend # NotCalled /\ Len(st.data) < st.longPeriod + 1)
         => st.trend.kind = "error"

----------------------------------------------------------------------------
(* Claims about the sweep, under Spec *)

\* the sweep has left its launch loop
Launched(s) == sweeps[s].pc \in {"wait", "done"}

\* the key of the record the pipeline of task i writes
RecordKey(i) == Upper(tasks[i].ticker)

\* C20: a sweep that has left its launch loop enumerated the union of the
\* watchlists and the global list, launched exactly one pipeline for each
\* ticker of it, and no two of its pipelines write the same record key.
C20_OnePipelinePerKey ==
    \A s \in 1..Len(sweeps) :
        Launched(s) =>
            /\ sweeps[s].all_tickers = AllUniqueTickers(users, companies_list)
            /\ {tasks[i].ticker : i \in sweeps[s].launched} = sweeps[s].all_tickers
            /\ Cardinality(sweeps[s].launched) = Cardinality(sweeps[s].all_tickers)
            /\ \A i, j \in sweeps[s].launched : i # j => RecordKey(i) # RecordKey(j)

----------------------------------------------------------------------------
(* Claims about the indicators, under StratSpec *)

\* the closes of the last fourteen day-to-day changes never fall
NoLossInWindow ==
    /\ Len(st.data) > RsiWindow
    /\ \A i \in (Len(st.data) - RsiWindow + 1)..Len(st.data) : st.data[i] >= st.data[i - 1]

\* C21: the RSI of the quant report is "N/A", never a number, whenever the
\* history is too short for the 14-period averages or the 14-period loss
\* average is zero.
C21_RsiAbsentWhenUndefined ==
    (st.rsi.kind # "not_called" /\ (Len(st.data) <= RsiWindow \/ NoLossInWindow))
        => st.rsi.kind = "N/A"

----------------------------------------------------------------------------
(* Claims about the triggers and the watchlists, under AddSpec and Spec *)

\* what get_analysis(ticker, 12) returns now
CachedNow(ticker) == GetAnalysis(analyses, ticker, AddMaxAge, clock)

\* C22: while get returns a record with error set for a ticker, no /add
\* request for that ticker, by the callback path or by the immediate path,
\* starts a pipeline.
C22_ErrorRecordIsTerminal ==
    [][\A r \in 1..Len(rq) :
          (rq[r].pc # "started" /\ rq'[r].pc = "started")
              => ~Truthy(CachedNow(rq[r].ticker).error)]_vars

\* C23: a pipeline is started for a ticker only when the ticker has no
\* record or its record is older than the freshness threshold; the sweep and
\* the manual trigger start none for a ticker whose record is still fresh.
C23_OnlyStaleIsRefreshed ==
    [][\A i \in (Len(tasks) + 1)..Len(tasks') :
          CachedNow(tasks'[i].ticker) = NoAnalysis]_vars

\* C28: there is one watchlist document per user_id, and no ticker occurs
\* twice in a watchlist, whatever the interleaving of the add_user_ticker calls.
C28_WatchlistIsSet ==
    /\ \A i, j \in 1..Len(users) : users[i].user_id = users[j].user_id => i = j
    /\ \A i \in 1..Len(users) :
         Cardinality(SeqToSet(users[i].tickers)) = Len(users[i].tickers)

----------------------------------------------------------------------------
(* Claims about the fallback chain, under FuseSpec *)

\* a six-digit code, or a code with .KS or .KQ; of the tickers of the runs
\* checked here, "005930"
Domestic == fz.ticker \in {"005930", "005930.KS"}

\* the place of a provider in the chain
Rank(provider) ==
    CASE provider = "naver_finance" -> 1
      [] provider = "yfinance" -> 2
      [] provider = "yfinance_alternative" -> 3
      [] provider = "dart_api" -> 4

InChainOrder(list) ==
    \A i, j \in 1..Len(list) : i < j => Rank(list[i]) < Rank(list[j])

\* the critical metrics a metric set does not hold with a non-empty value
StillMissing(fm) == NineCritical \ Present(fm)

\* a provider was listed in this step
Listed == Len(fz'.data_sources_used) > Len(fz.data_sources_used)

\* a provider was called in this step
Called == Len(fz'.consulted) > Len(fz.consulted)

\* C24: a provider is listed in sources_used exactly when it contributed at
\* least one metric to the fused set, and the list is in the order of the
\* chain; a provider that answered but whose every value was empty, zero or
\* already filled is not listed.
C24_SourcesUsedAreContributors ==
    [][/\ Listed <=> fz'.financial_metrics # fz.financial_metrics
       /\ InChainOrder(fz'.data_sources_used)]_vars

\* C25: in the fused metric set, at every step of the chain, each metric is
\* absent or a number; no key maps to None, to "N/A" or to another sentinel.
C25_MetricsAreNumbers ==
    \A m \in DOMAIN fz.financial_metrics : fz.financial_metrics[m].kind = "num"

\* C26: the chain is consulted in a fixed order with fixed gates: the primary
\* provider only for domestic tickers, the alternate-field extraction only if
\* a critical metric is still missing after the secondary provider, the
\* regulatory fallback only for a domestic ticker with a key configured and
\* critical metrics still missing.
C26_ChainGates ==
    [][/\ InChainOrder(fz'.consulted)
       /\ fz.pc = "naver" => (Called <=> Domestic)
       /\ fz.pc = "alternative" =>
            (Called <=> StillMissing(fz.financial_metrics) # {})
       /\ fz.pc = "dart" =>
            (Called => /\ Domestic
                       /\ fz.dart_api_key
                       /\ StillMissing(fz.financial_metrics) # {})
       /\ Called => fz'.consulted[Len(fz'.consulted)] =
            (CASE fz.pc = "naver" -> "naver_finance"
               [] fz.pc = "yfinance" -> "yfinance"
               [] fz.pc = "alternative" -> "yfinance_alternative"
               [] OTHER -> "dart_api")]_vars

\* a domestic run with a key that called all four providers
C26_Witness ==
    /\ fz.pc = "done"
    /\ Domestic /\ fz.dart_api_key
    /\ fz.consulted = <<"naver_finance", "yfinance", "yfinance_alternative", "dart_api">>

\* C27: a failure of one provider never aborts the fusion: the secondary
\* provider is called whether the primary succeeded, failed or was skipped, a
\* provider that is not listed leaves the metrics filled so far unchanged,
\* and the run goes on to the next step of the chain.
C27_ProviderFailureIsSkipped ==
    [][/\ fz.pc = "naver" => fz'.pc = "yfinance"
       /\ fz.pc = "yfinance" =>
            (fz'.pc = "alternative" /\ fz'.consulted = Append(fz.consulted, "yfinance"))
       /\ fz.pc = "alternative" => fz'.pc = "dart"
       /\ fz.pc = "dart" => fz'.pc = "score"
       /\ fz.pc = "score" => fz'.pc = "done"
       /\ ~Listed => fz'.financial_metrics = fz.financial_metrics]_vars

\* the primary provider failed, the secondary was called and filled metrics,
\* and the run ended with a result
C27_Witness ==
    /\ fz.pc = "done"
    /\ fz.consulted[1] = "naver_finance"
    /\ fz.data_sources_used[1] = "yfinance"
    /\ ~fz.returned.error
    /\ FromSecondary(fz.financial_metrics) # {}

\* C30: at the end of every run the missing list and the score agree: the
\* missing metrics are exactly the critical metrics without a non-empty
\* value in the fused set, so the score is (9 - |missing_metrics|) / 9 * 100.
C30_MissingMatchesScore ==
    fz.pc = "done" =>
        /\ SeqToSet(fz.returned.missing_metrics) = StillMissing(fz.financial_metrics)
        /\ fz.data_quality_score = (9 - Len(fz.returned.missing_metrics)) * 100

----------------------------------------------------------------------------
(* Claims about the end of a sweep, under LiveSpec *)

\* C29: every sweep terminates: scheduled_analysis returns when all its
\* pipelines have completed or when the sweep timeout fires, even if some
\* pipeline never completes.
C29_SweepTerminates ==
    (sweeps # <<>>) ~> (sweeps # <<>> /\ sweeps[1].pc = "done")

=============================================================================
